---- MODULE Spec2Model ----
(***************************************************************************)
(* HireSense AI service: the POST /analyze handler of ai-service/main.py,  *)
(* its deterministic scorer (extract_skills, calculate_score) and the PDF  *)
(* text extractor of lib/pdf_utils.py.                                     *)
(*                                                                         *)
(* Texts are strings; lower-casing and substring search are computed       *)
(* character by character.  An optional value (Python None or a value) is  *)
(* a sequence of length 0 or 1.  One behaviour is one request: Init draws  *)
(* the form fields, and the handler advances from one await to the next.   *)
(***************************************************************************)
EXTENDS Integers, Sequences, FiniteSets, TLC

VARIABLES
    pc,              \* position of the handler: "start", "await_resume",
                     \* "await_job", "await_match", "done", "escaped"
    job_text,        \* form field job_text
    resume_text,     \* form field resume_text: None or Some(text)
    resume_file,     \* form field resume_file: None or Some(upload)
    resume_content,  \* local resume_content ("" until assigned)
    resume_result,   \* output of resume_agent.run ("" until returned)
    job_result,      \* output of job_agent.run ("" until returned)
    match_result,    \* what match_agent.run returned: None or Some(output)
    match_text,      \* local match_text
    calls,           \* delegate calls issued so far, in order
    returns,         \* outcome of each delegate call that has returned, in order
    caught,          \* exceptions caught by an except clause, in order
    response         \* the returned body (NoResponse until the handler returns)

vars == <<pc, job_text, resume_text, resume_file, resume_content, resume_result,
          job_result, match_result, match_text, calls, returns, caught, response>>

None == <<>>
Some(v) == <<v>>
IsNone(o) == Len(o) = 0
TheValue(o) == o[1]

(***************************************************************************)
(* Strings.                                                                *)
(***************************************************************************)
UpperChars == "ABCDEFGHIJKLMNOPQRSTUVWXYZ"
LowerChars == "abcdefghijklmnopqrstuvwxyz"

CharAt(s, i) == SubSeq(s, i, i)

\* str.lower() on one character
LowerChar(c) ==
    IF \E i \in 1..Len(UpperChars) : CharAt(UpperChars, i) = c
    THEN CharAt(LowerChars, CHOOSE i \in 1..Len(UpperChars) : CharAt(UpperChars, i) = c)
    ELSE c

RECURSIVE LowerFrom(_, _)
LowerFrom(s, i) ==
    IF i > Len(s) THEN "" ELSE LowerChar(CharAt(s, i)) \o LowerFrom(s, i + 1)

\* text.lower()
Lower(s) == LowerFrom(s, 1)

\* Python's  sub in text
Contains(sub, text) ==
    \E i \in 1..(Len(text) - Len(sub) + 1) : SubSeq(text, i, i + Len(sub) - 1) = sub

\* str.endswith(suffix)
EndsWith(s, suffix) ==
    /\ Len(s) >= Len(suffix)
    /\ SubSeq(s, Len(s) - Len(suffix) + 1, Len(s)) = suffix

RECURSIVE JoinFrom(_, _, _)
JoinFrom(sep, chunks, i) ==
    IF i > Len(chunks) THEN ""
    ELSE IF i = Len(chunks) THEN chunks[i]
    ELSE chunks[i] \o sep \o JoinFrom(sep, chunks, i + 1)

\* sep.join(chunks)
Join(sep, chunks) == JoinFrom(sep, chunks, 1)

(***************************************************************************)
(* Deterministic scoring.                                                  *)
(***************************************************************************)
skill_keywords ==
    { "python", "java", "javascript", "typescript",
      "react", "angular", "vue",
      "sql", "postgresql", "mysql", "mongodb",
      "fastapi", "django", "flask",
      "aws", "azure", "gcp", "cloud",
      "docker", "kubernetes", "ci/cd",
      "machine learning", "data analysis",
      "backend", "frontend", "api",
      "git", "linux" }

extract_skills_case_sensitive(text) == {s \in skill_keywords : Contains(s, text)}

extract_skills(text) ==
    LET lowered == Lower(text)
    IN  {s \in skill_keywords : Contains(s, lowered)}

\* int((m / n) * 100): the quotient and the product are IEEE doubles and int()
\* truncates.  For 0 <= m <= n <= 28 (the size of skill_keywords) the double
\* result truncates to the exact floor of 100*m/n, which is what is computed.
IntOfRatioTimes100(m, n) == (m * 100) \div n

\* round(raw / 5): Python 3 rounds to the nearest integer, a tie to the even one
PyRoundFifth(raw) ==
    LET q == raw \div 5
        r == raw % 5
    IN  IF 2 * r < 5 THEN q
        ELSE IF 2 * r > 5 THEN q + 1
        ELSE IF q % 2 = 0 THEN q ELSE q + 1

NeutralScore == 50

calculate_score_clamped(resume, job) ==
    LET resume_skills == extract_skills(resume)
        job_skills == extract_skills(job)
        matched == resume_skills \cap job_skills
        raw == IntOfRatioTimes100(Cardinality(matched), Cardinality(job_skills))
        rounded == PyRoundFifth(raw) * 5
    IN  IF job_skills = {} THEN NeutralScore
        ELSE IF rounded < 30 THEN 30 ELSE IF rounded > 95 THEN 95 ELSE rounded

calculate_score_unrounded(resume, job) ==
    LET resume_skills == extract_skills(resume)
        job_skills == extract_skills(job)
        matched == resume_skills \cap job_skills
    IN  IF job_skills = {} THEN NeutralScore
        ELSE IntOfRatioTimes100(Cardinality(matched), Cardinality(job_skills))

calculate_score(resume, job) ==
    LET resume_skills == extract_skills(resume)
        job_skills == extract_skills(job)
        matched == resume_skills \cap job_skills
        raw == IntOfRatioTimes100(Cardinality(matched), Cardinality(job_skills))
    IN  IF job_skills = {} THEN NeutralScore
        ELSE PyRoundFifth(raw) * 5

(***************************************************************************)
(* PDF text extraction.  An upload is [filename, corrupt, pages]; a page   *)
(* is the text page.extract_text() gives for it, "" for a page without     *)
(* text.  pdfplumber.open raises on a corrupt file.                        *)
(***************************************************************************)
SelectNonEmpty(pages) == SelectSeq(pages, LAMBDA t : t # "")

extract_text_from_pdf(file) == Join("\n", SelectNonEmpty(file.pages))


(***************************************************************************)
(* Inputs of a request.                                                    *)
(***************************************************************************)
MaxJobPhrases == 2
MaxResumePhrases == 2

ScenarioAJob == "We need a Python and Docker backend engineer."
ScenarioAResume == "I have 5 years of Python, Docker, and Kubernetes experience."
ScenarioBJob == "Looking for a Java developer."
ScenarioBResume == "I know Python only."

JobPhrases ==
    << "Python", "DOCKER", "JavaScript", "PostgreSQL", "REST API",
       "AWS, Azure or GCP cloud", "CI/CD", "team player" >>

ResumePhrases ==
    << "python", "Java", "SQL and FastAPI", "Docker/Kubernetes", "aws cloud",
       "JavaScript, React", "gardening" >>

\* the phrases with index in S, in index order (S is a set of indices)
RECURSIVE PhrasesOf(_, _, _)
PhrasesOf(phrases, S, i) ==
    IF i > Len(phrases) THEN <<>>
    ELSE IF i \in S THEN <<phrases[i]>> \o PhrasesOf(phrases, S, i + 1)
    ELSE PhrasesOf(phrases, S, i + 1)

\* a form field that is sent is not empty: the texts of 1..max phrases
TextsOf(phrases, max) ==
    { Join(", ", PhrasesOf(phrases, S, 1)) :
        S \in {T \in SUBSET (1..Len(phrases)) : T # {} /\ Cardinality(T) <= max} }

JobTexts == TextsOf(JobPhrases, MaxJobPhrases) \cup {ScenarioAJob, ScenarioBJob}

ResumeTexts ==
    TextsOf(ResumePhrases, MaxResumePhrases) \cup {ScenarioAResume, ScenarioBResume}

Upload(filename, corrupt, pages) ==
    [filename |-> filename, corrupt |-> corrupt, pages |-> pages]

Uploads ==
    { Upload("cv.pdf", FALSE, <<"Python developer", "", "REST API, Docker">>),
      Upload("cv.pdf", FALSE, <<"">>),
      Upload("cv.pdf", TRUE, <<>>),
      Upload("cv.docx", FALSE, <<"Python developer">>),
      Upload("CV.PDF", FALSE, <<"Python developer">>),
      Upload("pdf", FALSE, <<"Java">>) }

\* resume_text beside an upload: absent, or a usable text
TextsBesideUpload == {None, Some(ScenarioAResume), Some("FastAPI")}

Exception(type, msg) == [type |-> type, msg |-> msg]

\* what a delegate call may do: return its output or raise
DelegateFailure == Exception("ModelHTTPError", "status_code: 503")
ResumeOutputs == {"{\"name\": \"A\", \"skills\": [\"python\"]}"}
JobOutputs == {"{\"role\": \"engineer\"}"}

MatchOutput(text, parseable, strengths, gaps, suggestions) ==
    [text |-> text, parseable |-> parseable, strengths |-> strengths,
     gaps |-> gaps, improvement_suggestions |-> suggestions]

\* the match delegate answers with the JSON its prompt describes, or with text
\* that is not JSON
MatchOutputs ==
    { MatchOutput("{\"strengths\": [\"Solid Python\"], \"gaps\": [\"No Kubernetes\"], \"improvement_suggestions\": [\"Learn Kubernetes\"]}",
                  TRUE, <<"Solid Python">>, <<"No Kubernetes">>, <<"Learn Kubernetes">>),
      MatchOutput("Sure! Here is my analysis of the candidate.",
                  FALSE, <<>>, <<>>, <<>>) }

(***************************************************************************)
(* The handler.                                                            *)
(***************************************************************************)
NoResponse == [pending |-> TRUE]

Init ==
    /\ pc = "start"
    /\ job_text \in JobTexts
    /\ \/ /\ resume_file = None
          /\ resume_text \in {None} \cup {Some(t) : t \in ResumeTexts}
       \/ /\ resume_file \in {Some(u) : u \in Uploads}
          /\ resume_text \in TextsBesideUpload
    /\ resume_content = ""
    /\ resume_result = ""
    /\ job_result = ""
    /\ match_result = None
    /\ match_text = ""
    /\ calls = <<>>
    /\ returns = <<>>
    /\ caught = <<>>
    /\ response = NoResponse

Analysis(score, strengths, gaps, suggestions) ==
    [match_score |-> score, strengths |-> strengths, gaps |-> gaps,
     improvement_suggestions |-> suggestions]

\* the body returned by the outer except clause
FallbackResponse ==
    [resume |-> "", job |-> "",
     analysis |-> Analysis(NeutralScore,
                           <<"Resume was processed successfully.">>,
                           <<"Unable to fully analyze resume content.">>,
                           <<"Try simplifying the resume text or uploading a clearer PDF.">>)]

\* step 4 of the handler: the lists are built from the score and the resume
BuildStrengths(score) ==
    IF score >= 70
    THEN <<"Strong overlap between resume skills and job requirements.">>
    ELSE IF score >= 40
    THEN <<"Some relevant skills match the job description.">>
    ELSE <<>>

BuildGaps(score, content) ==
    (IF score >= 70 THEN <<>>
     ELSE IF score >= 40
     THEN <<"Several required skills are missing or weakly represented.">>
     ELSE <<"Limited alignment between resume and job description.">>)
    \o (IF ~Contains("api", Lower(content))
        THEN <<"API development experience is not clearly demonstrated.">>
        ELSE <<>>)

BuildSuggestions(content) ==
    LET suggestions ==
            IF ~Contains("api", Lower(content))
            THEN <<"Add specific API or backend project experience.">>
            ELSE <<>>
    IN  IF suggestions = <<>>
        THEN <<"Continue strengthening core skills relevant to the role.">>
        ELSE suggestions

ComposedResponse(content, job, resume_out, job_out) ==
    LET score == calculate_score(content, job)
    IN  [resume |-> resume_out, job |-> job_out,
         analysis |-> Analysis(score, BuildStrengths(score),
                               BuildGaps(score, content),
                               BuildSuggestions(content))]

\* except Exception: every exception the handler meets derives from Exception
CatchesValueErrorOnly(e) == e.type = "ValueError"

Catches(e) == e.type \in {"ValueError", "PDFSyntaxError", "ModelHTTPError"}

\* an exception raised inside the outer try block
Raise(e) ==
    IF Catches(e)
    THEN /\ pc' = "done"
         /\ caught' = Append(caught, e)
         /\ response' = FallbackResponse
    ELSE /\ pc' = "escaped"
         /\ UNCHANGED <<caught, response>>

\* a variant that falls back on resume_text when the upload is rejected
ResumeSourceOfTextFallback(file, text) ==
    IF ~IsNone(file) /\ EndsWith(TheValue(file).filename, ".pdf")
                     /\ ~TheValue(file).corrupt
    THEN <<TRUE, extract_text_from_pdf(TheValue(file))>>
    ELSE IF ~IsNone(text) /\ TheValue(text) # ""
    THEN <<TRUE, TheValue(text)>>
    ELSE IF ~IsNone(file)
    THEN <<FALSE, Exception("ValueError", "Only PDF resumes are supported")>>
    ELSE <<FALSE, Exception("ValueError", "Resume text or PDF required")>>

\* the resume source of the request: <<TRUE, content>> or <<FALSE, exception>>
ResumeSourceOf(file, text) ==
    IF ~IsNone(file)
    THEN IF ~EndsWith(TheValue(file).filename, ".pdf")
         THEN <<FALSE, Exception("ValueError", "Only PDF resumes are supported")>>
         ELSE IF TheValue(file).corrupt
         THEN <<FALSE, Exception("PDFSyntaxError", "No /Root object! - Is this really a PDF?")>>
         ELSE <<TRUE, extract_text_from_pdf(TheValue(file))>>
    ELSE IF ~IsNone(text) /\ TheValue(text) # ""
    THEN <<TRUE, TheValue(text)>>
    ELSE <<FALSE, Exception("ValueError", "Resume text or PDF required")>>

\* step 1, up to the first await: the resume source, then resume_agent.run
ResumeSource ==
    /\ pc = "start"
    /\ LET src == ResumeSourceOf(resume_file, resume_text)
       IN  IF src[1]
           THEN /\ resume_content' = src[2]
                /\ calls' = Append(calls, "resume")
                /\ pc' = "await_resume"
                /\ UNCHANGED <<caught, response>>
           ELSE /\ Raise(src[2])
                /\ UNCHANGED <<resume_content, calls>>
    /\ UNCHANGED <<job_text, resume_text, resume_file, resume_result, job_result,
                   match_result, match_text, returns>>

\* resume_agent.run returns or raises; on return job_agent.run is awaited
ResumeAgentReturn ==
    /\ pc = "await_resume"
    /\ \/ \E out \in ResumeOutputs :
            /\ resume_result' = out
            /\ returns' = Append(returns, "ok")
            /\ calls' = Append(calls, "job")
            /\ pc' = "await_job"
            /\ UNCHANGED <<caught, response>>
       \/ /\ returns' = Append(returns, "raised")
          /\ Raise(DelegateFailure)
          /\ UNCHANGED <<resume_result, calls>>
    /\ UNCHANGED <<job_text, resume_text, resume_file, resume_content, job_result,
                   match_result, match_text>>

\* a variant that treats job_agent.run as best-effort: its failure is swallowed
\* and match_agent.run is awaited all the same
JobAgentReturnBestEffort ==
    /\ pc = "await_job"
    /\ \/ \E out \in JobOutputs :
            /\ job_result' = out
            /\ returns' = Append(returns, "ok")
       \/ /\ returns' = Append(returns, "raised")
          /\ UNCHANGED job_result
    /\ calls' = Append(calls, "match")
    /\ pc' = "await_match"
    /\ UNCHANGED <<job_text, resume_text, resume_file, resume_content, resume_result,
                   match_result, match_text, caught, response>>

\* job_agent.run returns or raises; on return match_agent.run is awaited
JobAgentReturn ==
    /\ pc = "await_job"
    /\ \/ \E out \in JobOutputs :
            /\ job_result' = out
            /\ returns' = Append(returns, "ok")
            /\ calls' = Append(calls, "match")
            /\ pc' = "await_match"
            /\ UNCHANGED <<caught, response>>
       \/ /\ returns' = Append(returns, "raised")
          /\ Raise(DelegateFailure)
          /\ UNCHANGED <<job_result, calls>>
    /\ UNCHANGED <<job_text, resume_text, resume_file, resume_content, resume_result,
                   match_result, match_text>>

\* match_agent.run returns or raises (caught by the inner except); then the
\* score is computed and the body is built and returned
MatchAgentReturn ==
    /\ pc = "await_match"
    /\ \/ \E out \in MatchOutputs :
            /\ match_result' = Some(out)
            /\ match_text' = out.text
            /\ returns' = Append(returns, "ok")
            /\ UNCHANGED caught
       \/ /\ match_text' = ""
          /\ returns' = Append(returns, "raised")
          /\ caught' = Append(caught, DelegateFailure)
          /\ UNCHANGED match_result
    /\ response' = ComposedResponse(resume_content, job_text, resume_result, job_result)
    /\ pc' = "done"
    /\ UNCHANGED <<job_text, resume_text, resume_file, resume_content, resume_result,
                   job_result, calls>>

Next ==
    \/ ResumeSource
    \/ ResumeAgentReturn
    \/ JobAgentReturn
    \/ MatchAgentReturn

Spec == Init /\ [][Next]_vars

(***************************************************************************)
(* Properties.                                                             *)
(***************************************************************************)
Range(seq) == {seq[i] : i \in 1..Len(seq)}

Done == pc = "done"

\* the handler went through all three delegate calls and built the body itself
Composed == Done /\ Len(returns) = 3

ResponseFields == {"resume", "job", "analysis"}
AnalysisFields == {"match_score", "strengths", "gaps", "improvement_suggestions"}

\* the request, read off the form fields alone
NoResumeSupplied ==
    IsNone(resume_file) /\ (IsNone(resume_text) \/ TheValue(resume_text) = "")
NotAPdf == ~IsNone(resume_file) /\ ~EndsWith(TheValue(resume_file).filename, ".pdf")
ExtractionRaises ==
    ~IsNone(resume_file) /\ EndsWith(TheValue(resume_file).filename, ".pdf")
                         /\ TheValue(resume_file).corrupt
UsableResumeText == ~IsNone(resume_text) /\ TheValue(resume_text) # ""
DelegateRaised == "raised" \in Range(returns)

\* C1: every request ends in a returned body whose analysis object has the four
\* fields, on the happy path and on every failure path alike; no exception
\* escapes the handler: until it returns, the handler is at its start or at one
\* of its three awaits, each of which ends by returning or raising.
C1_AlwaysWellFormedResponse ==
    /\ pc # "escaped"
    /\ Done => /\ DOMAIN response = ResponseFields
               /\ DOMAIN response.analysis = AnalysisFields
    /\ ~Done => /\ pc \in {"start", "await_resume", "await_job", "await_match"}
                /\ response = NoResponse

\* C1 witness: a request whose PDF extraction raised has ended in a returned
\* body with the four fields
C1_Witness ==
    /\ Done
    /\ ExtractionRaises
    /\ caught # <<>>
    /\ DOMAIN response.analysis = AnalysisFields

\* C2: the match_score of every returned body, the result of calculate_score
\* included, is an integer in [0,100] and a multiple of 5.
C2_ScoreInRangeMultipleOfFive ==
    Done => /\ response.analysis.match_score \in 0..100
            /\ response.analysis.match_score % 5 = 0

\* C2 witness: a score whose raw percentage (2 of 3 job skills, 66) is no
\* multiple of 5
C2_Witness ==
    /\ Composed
    /\ Cardinality(extract_skills(job_text)) = 3
    /\ Cardinality(extract_skills(job_text) \cap extract_skills(resume_content)) = 2
    /\ response.analysis.match_score = 65

\* C3 (as claimed): once the resume source is read, the returned match_score is
\* calculate_score(resume_content, job_text) whatever the delegates did.
C3_ScoreIndependentOfDelegates ==
    (Done /\ calls # <<>>) =>
        response.analysis.match_score = calculate_score(resume_content, job_text)

\* the strings a returned body carries
ResponseStrings(r) ==
    {r.resume, r.job} \cup Range(r.analysis.strengths) \cup Range(r.analysis.gaps)
        \cup Range(r.analysis.improvement_suggestions)

\* C4 (as claimed): an input error (no resume supplied, or an upload that is not
\* a PDF) is reported in the body: the body has an error field, or carries the
\* message of the error.
C4_InputErrorReported ==
    (Done /\ (NoResumeSupplied \/ NotAPdf)) =>
        \/ "error" \in DOMAIN response
        \/ \E e \in Range(caught) : e.msg \in ResponseStrings(response)

\* C5 (as claimed): when a delegate call has raised, the body has the four
\* fields and none of strengths, gaps and improvement_suggestions is empty.
C5_NonEmptyListsOnDelegateFailure ==
    (Done /\ DelegateRaised) =>
        /\ DOMAIN response.analysis = AnalysisFields
        /\ response.analysis.strengths # <<>>
        /\ response.analysis.gaps # <<>>
        /\ response.analysis.improvement_suggestions # <<>>

\* C6 (as claimed): when the three delegate calls succeed and the match
\* delegate's output is parseable, the lists of the body are the delegate's
\* lists and the score is the deterministic score.
C6_HappyPathUsesDelegateLists ==
    (Composed /\ ~DelegateRaised /\ TheValue(match_result).parseable) =>
        /\ response.analysis.strengths = TheValue(match_result).strengths
        /\ response.analysis.gaps = TheValue(match_result).gaps
        /\ response.analysis.improvement_suggestions
              = TheValue(match_result).improvement_suggestions
        /\ response.analysis.match_score = calculate_score(resume_content, job_text)

ScenarioA == Composed /\ job_text = ScenarioAJob /\ resume_content = ScenarioAResume

\* C7 (as claimed): for scenario A the job skills are {python, docker}, the
\* matched set is {python, docker} and the score is 100.
C7_ScenarioAAsClaimed ==
    ScenarioA =>
        /\ extract_skills(job_text) = {"python", "docker"}
        /\ extract_skills(resume_content) \cap extract_skills(job_text)
              = {"python", "docker"}
        /\ response.analysis.match_score = 100

\* C7 (amended): for scenario A the job skills are {python, docker, backend}
\* ("backend" is a vocabulary term), the matched set is {python, docker} and the
\* score is 65 (2 of 3, 66, rounded to a multiple of 5).
C7_ScenarioAAmended ==
    ScenarioA =>
        /\ extract_skills(job_text) = {"python", "docker", "backend"}
        /\ extract_skills(resume_content) \cap extract_skills(job_text)
              = {"python", "docker"}
        /\ response.analysis.match_score = 65

\* C7 witness: scenario A has been analysed
C7_Witness == ScenarioA /\ response.job = job_result /\ ~IsNone(resume_text)

\* the reference of the scorer: floor(100 * matched / job), to the nearest
\* multiple of 5
RoundToNearestFive(x) == 5 * ((2 * x + 5) \div 10)

ReferenceScore(resume_skills, job_skills) ==
    IF job_skills = {} THEN 50
    ELSE RoundToNearestFive(
            (100 * Cardinality(resume_skills \cap job_skills)) \div Cardinality(job_skills))

\* C8: the score equals the reference: 50 when the job text has no vocabulary
\* term, else floor(100*|matched|/|job_skills|) to the nearest multiple of 5,
\* unclamped; 100 when every job skill is a resume skill, 0 when none is.
C8_ScoreEqualsReference ==
    Composed =>
        LET rs == extract_skills(resume_content)
            js == extract_skills(job_text)
            score == response.analysis.match_score
        IN  /\ score = ReferenceScore(rs, js)
            /\ js = {} => score = 50
            /\ (js # {} /\ js \subseteq rs) => score = 100
            /\ (js # {} /\ js \cap rs = {}) => score = 0

\* C8 witness: 1 of 3 job skills matched: floor(100/3) = 33, rounded to 35
C8_Witness ==
    /\ Composed
    /\ Cardinality(extract_skills(job_text)) = 3
    /\ Cardinality(extract_skills(job_text) \cap extract_skills(resume_content)) = 1
    /\ response.analysis.match_score = 35

IsPrefix(s, t) == Len(s) <= Len(t) /\ \A i \in 1..Len(s) : s[i] = t[i]

\* C9: the delegate calls are issued in the order resume, job, match, each at
\* most once, one at a time; the job call only after the resume call returned,
\* the match call only after both returned successfully, and never after a
\* failure of the resume or job call.
C9_DelegatesSequentialNoRetry ==
    /\ IsPrefix(calls, <<"resume", "job", "match">>)
    /\ Len(returns) <= Len(calls)
    /\ Len(calls) <= Len(returns) + 1
    /\ Len(calls) >= 2 => Len(returns) >= 1
    /\ "match" \in Range(calls) =>
          /\ Len(returns) >= 2
          /\ returns[1] = "ok"
          /\ returns[2] = "ok"
    /\ (\E i \in 1..Len(returns) : i <= 2 /\ returns[i] = "raised") =>
          "match" \notin Range(calls)

\* C9 witness: the job call failed after the resume call succeeded, and the
\* request ended without a match call
C9_Witness ==
    /\ Done
    /\ calls = <<"resume", "job">>
    /\ returns = <<"ok", "raised">>

\* C10: a supplied resume_file decides the resume source alone: when it is
\* rejected (not a .pdf name, or extraction raises) no delegate call is ever
\* issued and the body is the fixed fallback (score 50), even beside a usable
\* resume_text; when it is accepted the content is the extracted text; and a
\* request without any resume source issues no delegate call either.
C10_FilePrecedenceAndValidationFirst ==
    /\ (NotAPdf \/ ExtractionRaises \/ NoResumeSupplied) =>
          /\ calls = <<>>
          /\ Done => (response = FallbackResponse
                      /\ response.analysis.match_score = 50)
    /\ (~IsNone(resume_file) /\ calls # <<>>) =>
          resume_content = extract_text_from_pdf(TheValue(resume_file))

\* C10 witness: a rejected upload beside a usable resume_text was answered
C10_Witness ==
    /\ Done
    /\ NotAPdf
    /\ UsableResumeText
    /\ response.analysis.match_score = 50

====
